---- MODULE Spec2Model ----
(***************************************************************************)
(* PPT KPI Extractor (src/app.py): the value normalisers, the KPI pattern  *)
(* matcher, the table-wide reconciliation pass and the batch loop of the   *)
(* "Process Files" handler.                                                 *)
(*                                                                         *)
(* Strings are sequences of one-character strings.  A float is kept as an  *)
(* exact decimal [m, e] = m / 10^e in lowest form, so "5.50" and "5.5"     *)
(* denote the same value; an optional float (None / NaN in the code) is    *)
(* [some |-> FALSE, ...].                                                  *)
(***************************************************************************)
EXTENDS Integers, Sequences, FiniteSets, TLC

VARIABLES
    val, parsed,                 \* parse_percent: its argument and what the call did
    full_text, data,             \* extract_kpis_from_text: its argument and its result
    table, passes,               \* the reconciliation pass applied to a table
    uploaded_ppts, uploaded_zip, \* the two upload widgets
    pc, idx, rows, seen,         \* the handler's position and its locals
    warnings, errors, info,      \* st.warning / st.error / st.info calls made
    df, exported                 \* the reconciled DataFrame and whether it was output

vars == <<val, parsed, full_text, data, table, passes, uploaded_ppts,
          uploaded_zip, pc, idx, rows, seen, warnings, errors, info, df, exported>>

(***************************************************************************)
(* Bounds of the model.                                                    *)
(***************************************************************************)
MaxLen == 4
MaxShapes == 3
MaxAmt == 3
MaxPasses == 2
MaxPpts == 2
MaxEntries == 2

(***************************************************************************)
(* Characters and floats.                                                  *)
(***************************************************************************)
Digits == {"0", "1", "2", "3", "4", "5", "6", "7", "8", "9"}

DigitVal(c) ==
    CASE c = "0" -> 0 [] c = "1" -> 1 [] c = "2" -> 2 [] c = "3" -> 3
      [] c = "4" -> 4 [] c = "5" -> 5 [] c = "6" -> 6 [] c = "7" -> 7
      [] c = "8" -> 8 [] c = "9" -> 9

Whitespace == {" "}

RECURSIVE Pow10(_)
Pow10(n) == IF n = 0 THEN 1 ELSE 10 * Pow10(n - 1)

\* The value of a sequence of digits (0 for the empty one).
RECURSIVE Num(_)
Num(s) == IF s = <<>> THEN 0
          ELSE 10 * Num(SubSeq(s, 1, Len(s) - 1)) + DigitVal(s[Len(s)])

\* m / 10^e in lowest form: two spellings of one number are one float.
RECURSIVE Normalise(_, _)
Normalise(m, e) ==
    IF e > 0 /\ m % 10 = 0 THEN Normalise(m \div 10, e - 1) ELSE [m |-> m, e |-> e]

None == [some |-> FALSE, m |-> 0, e |-> 0]
Some(m, e) == [some |-> TRUE] @@ Normalise(m, e)

\* str.replace(old, ""): every occurrence of the character removed.
RECURSIVE Remove(_, _)
Remove(s, c) ==
    IF s = <<>> THEN <<>>
    ELSE IF Head(s) = c THEN Remove(Tail(s), c)
    ELSE <<Head(s)>> \o Remove(Tail(s), c)

\* str.strip(): leading and trailing whitespace removed.
RECURSIVE LStrip(_)
LStrip(s) == IF s # <<>> /\ Head(s) \in Whitespace THEN LStrip(Tail(s)) ELSE s

RECURSIVE RStrip(_)
RStrip(s) ==
    IF s # <<>> /\ s[Len(s)] \in Whitespace THEN RStrip(SubSeq(s, 1, Len(s) - 1)) ELSE s

Strip(s) == RStrip(LStrip(s))

Count(s, c) == Cardinality({k \in 1..Len(s) : s[k] = c})

\* float(str) for strings over digits, ".", "%", blanks and letters: the string
\* is a number when, blanks around it aside, it is digits with at most one "."
\* and at least one digit; anything else is a ValueError.
float(s) ==
    LET t == Strip(s)
        dot == IF Count(t, ".") = 0 THEN Len(t) + 1
               ELSE CHOOSE k \in 1..Len(t) : t[k] = "."
        ip == SubSeq(t, 1, dot - 1)
        fp == SubSeq(t, dot + 1, Len(t))
    IN  IF /\ \A k \in 1..Len(t) : t[k] \in Digits \cup {"."}
           /\ Count(t, ".") <= 1
           /\ Len(t) - Count(t, ".") >= 1
        THEN [raised |-> FALSE, value |-> Some(Num(ip \o fp), Len(fp))]
        ELSE [raised |-> TRUE, value |-> None]

\* An optional string: kpis.get(key) is None when the key is missing.
NoStr == [some |-> FALSE, s |-> <<>>]
Str(s) == [some |-> TRUE, s |-> s]

\* parse_percent without the try/except around float().
parse_percent_unguarded(v) ==
    IF ~v.some \/ v.s = <<>> THEN [raised |-> FALSE, value |-> None]
    ELSE float(Strip(Remove(v.s, "%")))

parse_percent(v) ==
    IF ~v.some \/ v.s = <<>> THEN [raised |-> FALSE, value |-> None]
    ELSE LET r == float(Strip(Remove(v.s, "%")))
         IN  [raised |-> FALSE, value |-> IF r.raised THEN None ELSE r.value]

parse_currency(v) ==
    IF ~v.some \/ v.s = <<>> THEN [raised |-> FALSE, value |-> None]
    ELSE LET r == float(Remove(Remove(v.s, ","), " "))
         IN  [raised |-> FALSE, value |-> IF r.raised THEN None ELSE r.value]

(***************************************************************************)
(* parse_percent on arbitrary short strings.                               *)
(***************************************************************************)
PctChars == {"0", "2", "5", ".", "%", " ", "x"}

Strings(alphabet, n) == UNION {[1..k -> alphabet] : k \in 0..n}

NotCalled == [called |-> FALSE, raised |-> FALSE, value |-> None]

InitPct ==
    /\ val \in {NoStr} \cup {Str(s) : s \in Strings(PctChars, MaxLen)}
    /\ parsed = NotCalled
    /\ full_text = <<>> /\ data = <<>>
    /\ table = <<>> /\ passes = 0
    /\ uploaded_ppts = <<>> /\ uploaded_zip = <<>>
    /\ pc = "idle" /\ idx = 0 /\ rows = <<>> /\ seen = {}
    /\ warnings = <<>> /\ errors = <<>> /\ info = <<>>
    /\ df = <<>> /\ exported = FALSE

CallParsePercent ==
    /\ ~parsed.called
    /\ parsed' = [called |-> TRUE] @@ parse_percent(val)
    /\ UNCHANGED <<val, full_text, data, table, passes, uploaded_ppts, uploaded_zip,
                   pc, idx, rows, seen, warnings, errors, info, df, exported>>

NextPct == CallParsePercent

SpecPct == InitPct /\ [][NextPct]_vars

\* s is digits, or digits "." digits.
IsDecimal(s) ==
    /\ s # <<>>
    /\ \A k \in 1..Len(s) : s[k] \in Digits \cup {"."}
    /\ Count(s, ".") <= 1
    /\ s[1] \in Digits /\ s[Len(s)] \in Digits

\* The number a decimal spells, digit by digit.
DecimalValue(s) ==
    LET fracLen == IF Count(s, ".") = 0 THEN 0
                   ELSE Len(s) - (CHOOSE k \in 1..Len(s) : s[k] = ".")
    IN  Some(Num(Remove(s, ".")), fracLen)

\* s is digits[.digits]%, blanks around it allowed.
IsPercentForm(s) ==
    LET t == Strip(s)
    IN  /\ Len(t) >= 2 /\ t[Len(t)] = "%"
        /\ IsDecimal(SubSeq(t, 1, Len(t) - 1))

PercentFormValue(s) ==
    LET t == Strip(s) IN DecimalValue(SubSeq(t, 1, Len(t) - 1))

LacksTrailingPercent(s) ==
    LET t == Strip(s) IN t = <<>> \/ t[Len(t)] # "%"

HasNonNumeric(s) ==
    \E k \in 1..Len(s) : s[k] \notin Digits \cup {".", "%"} \cup Whitespace

Word(w) == [w |-> w, s |-> <<>>]
Lit(s) == [w |-> "lit", s |-> s]
EmptyRun == Lit(<<>>)

\* extract_runs_text: the non-empty runs of a shape that has a text frame.
extract_runs_text(shape) ==
    IF shape.has_text_frame
    THEN SelectSeq(shape.runs, LAMBDA t : t # EmptyRun)
    ELSE <<>>

\* The texts list of process_pptx_bytes joined: shapes with no text skipped.
RECURSIVE JoinShapes(_)
JoinShapes(shapes) ==
    IF shapes = <<>> THEN <<>>
    ELSE extract_runs_text(Head(shapes)) \o JoinShapes(Tail(shapes))

\* The longest prefix of s made of characters of cls.
RECURSIVE Run(_, _)
Run(s, cls) ==
    IF s # <<>> /\ Head(s) \in cls THEN <<Head(s)>> \o Run(Tail(s), cls) ELSE <<>>

\* ([\d\.]+%) matched at the start of s.
CapturePct(s) ==
    LET r == Run(s, Digits \cup {"."})
    IN  IF r # <<>> /\ Len(s) > Len(r) /\ s[Len(r) + 1] = "%"
        THEN Str(r \o <<"%">>) ELSE NoStr

\* ([\d,]+) matched at the start of s.
CaptureNum(s) ==
    LET r == Run(s, Digits \cup {","}) IN IF r # <<>> THEN Str(r) ELSE NoStr

\* [^\(]*\(([\d\.]+%)\) matched at the start of s.
CaptureParenPct(s) ==
    LET q == CHOOSE k \in 1..Len(s) : s[k] = "(" /\ \A h \in 1..(k - 1) : s[h] # "("
        c == CapturePct(SubSeq(s, q + 1, Len(s)))
    IN  IF Count(s, "(") > 0 /\ c.some
           /\ Len(s) > q + Len(c.s) /\ s[q + Len(c.s) + 1] = ")"
        THEN c ELSE NoStr

Capture(kind, s) ==
    CASE kind = "pct" -> CapturePct(s)
      [] kind = "num" -> CaptureNum(s)
      [] kind = "parenpct" -> CaptureParenPct(s)

\* The patterns at token level: the words of the phrase, the separator
\* tokens the two character classes after it let through (in that order), and
\* the kind of group captured.  anyGap stands for [^\(]+ : every token up to
\* the first one holding a "(" is let through.
PATTERNS ==
    [k \in {"Achievement Rate", "Revenue Target", "Achieved", "Revenue Reached",
            "Target Of", "Revenue %", "Quality Score", "Quality Score (alt)"} |->
       CASE k = "Achievement Rate" ->
              [phrase |-> <<"Achievement Rate">>, skip1 |-> {":"}, skip2 |-> {},
               anyGap |-> FALSE, group |-> "pct"]
         [] k = "Revenue Target" ->
              [phrase |-> <<"Revenue Target">>, skip1 |-> {":"}, skip2 |-> {"Rs"},
               anyGap |-> FALSE, group |-> "num"]
         [] k = "Achieved" ->
              [phrase |-> <<"Achieved">>, skip1 |-> {":"}, skip2 |-> {"Rs"},
               anyGap |-> FALSE, group |-> "num"]
         [] k = "Revenue Reached" ->
              [phrase |-> <<"revenue reached">>, skip1 |-> {}, skip2 |-> {"Rs"},
               anyGap |-> FALSE, group |-> "num"]
         [] k = "Target Of" ->
              [phrase |-> <<"against a target of">>, skip1 |-> {}, skip2 |-> {"Rs"},
               anyGap |-> FALSE, group |-> "num"]
         [] k = "Revenue %" ->
              [phrase |-> <<"against a target of">>, skip1 |-> {}, skip2 |-> {},
               anyGap |-> TRUE, group |-> "parenpct"]
         [] k = "Quality Score" ->
              [phrase |-> <<"Quality score", "was">>, skip1 |-> {}, skip2 |-> {},
               anyGap |-> FALSE, group |-> "pct"]
         [] k = "Quality Score (alt)" ->
              [phrase |-> <<"Quality score">>, skip1 |-> {":"}, skip2 |-> {},
               anyGap |-> FALSE, group |-> "pct"]]

\* PATTERNS.items() yields the keys in the order the dict literal lists them.
PatternKeys ==
    <<"Achievement Rate", "Revenue Target", "Achieved", "Revenue Reached",
      "Target Of", "Revenue %", "Quality Score", "Quality Score (alt)">>

\* The first position at or after a whose token is not a word of S.
RECURSIVE SkipWords(_, _, _)
SkipWords(text, a, S) ==
    IF a <= Len(text) /\ text[a].w \in S THEN SkipWords(text, a + 1, S) ELSE a

\* The first position at or after a whose token holds a "(".
RECURSIVE SkipToParen(_, _)
SkipToParen(text, a) ==
    IF a <= Len(text) /\ Count(text[a].s, "(") = 0 THEN SkipToParen(text, a + 1) ELSE a

\* The pattern tried with its phrase starting at token i: group 1, or no match.
MatchAt(p, text, i) ==
    LET n == Len(p.phrase)
        b == IF p.anyGap THEN SkipToParen(text, i + n)
             ELSE SkipWords(text, SkipWords(text, i + n, p.skip1), p.skip2)
    IN  IF /\ i + n - 1 <= Len(text)
           /\ \A k \in 1..n : text[i + k - 1].w = p.phrase[k]
           /\ b <= Len(text)
           /\ text[b].w = "lit"
        THEN Capture(p.group, text[b].s)
        ELSE NoStr

\* pattern.search(full_text): the leftmost match's group 1.
search(p, text) ==
    LET hits == {i \in 1..Len(text) : MatchAt(p, text, i).some}
    IN  IF hits = {} THEN NoStr
        ELSE MatchAt(p, text, CHOOSE i \in hits : \A h \in hits : i <= h)

\* Python dicts as functions.
EmptyDict == [k \in {} |-> NoStr]
Put(d, k, v) == (k :> v) @@ d
Pop(d, k) == [x \in DOMAIN d \ {k} |-> d[x]]
Get(d, k) == IF k \in DOMAIN d THEN Str(d[k]) ELSE NoStr

\* The loop over PATTERNS.items() of extract_kpis_from_text.
RECURSIVE RunRules(_, _, _)
RunRules(keys, text, d) ==
    IF keys = <<>> THEN d
    ELSE LET m == search(PATTERNS[Head(keys)], text)
         IN  RunRules(Tail(keys), text, IF m.some THEN Put(d, Head(keys), m.s) ELSE d)

\* extract_kpis_from_text where the fallback overwrites the primary capture.
extract_kpis_alt_wins(text) ==
    LET d == RunRules(PatternKeys, text, EmptyDict)
        e == IF "Quality Score (alt)" \in DOMAIN d
             THEN Put(d, "Quality Score", d["Quality Score (alt)"]) ELSE d
    IN  Pop(e, "Quality Score (alt)")

extract_kpis_from_text(text) ==
    LET d == RunRules(PatternKeys, text, EmptyDict)
        e == IF "Quality Score" \notin DOMAIN d /\ "Quality Score (alt)" \in DOMAIN d
             THEN Put(d, "Quality Score", d["Quality Score (alt)"]) ELSE d
    IN  Pop(e, "Quality Score (alt)")

(***************************************************************************)
(* extract_kpis_from_text on the texts of small decks.                     *)
(***************************************************************************)
Shape(runs) == [has_text_frame |-> TRUE, runs |-> runs]
Picture == [has_text_frame |-> FALSE, runs |-> <<>>]

SampleShapes ==
    { Shape(<<Word("Quality score"), Word("was"), Lit(<<"8", "0", "%">>)>>),
      Shape(<<Word("Quality score"), Word(":"), Lit(<<"9", "2", ".", "5", "%">>)>>),
      Shape(<<Word("Achievement Rate"), Word(":"), Lit(<<"7", "5", "%">>)>>),
      Shape(<<Word("Revenue Target"), Word(":"), Word("Rs"),
              Lit(<<"1", ",", "0", "0", "0">>)>>),
      Shape(<<Word("Achieved"), Word("Rs"), Lit(<<"8", "0", "0">>)>>),
      Shape(<<Word("revenue reached"), Word("Rs"), Lit(<<"5", "0", "0">>),
              Word("against a target of"), Word("Rs"), Lit(<<"0">>),
              Lit(<<"(", "1", "2", ".", "5", "%", ")">>)>>),
      Shape(<<Word("Quality score")>>),
      Shape(<<Lit(<<"8", "0", "%">>)>>),
      Shape(<<Lit(<<"1", ".", "2", ".", "3", "%">>)>>),
      Shape(<<EmptyRun, Word(":")>>),
      Shape(<<Word("was")>>),
      Picture }

NoData == [called |-> FALSE, kpis |-> EmptyDict]

InitKpi ==
    /\ full_text \in {JoinShapes(sh) : sh \in Strings(SampleShapes, MaxShapes)}
    /\ data = NoData
    /\ val = NoStr /\ parsed = NotCalled
    /\ table = <<>> /\ passes = 0
    /\ uploaded_ppts = <<>> /\ uploaded_zip = <<>>
    /\ pc = "idle" /\ idx = 0 /\ rows = <<>> /\ seen = {}
    /\ warnings = <<>> /\ errors = <<>> /\ info = <<>>
    /\ df = <<>> /\ exported = FALSE

CallExtractKpis ==
    /\ ~data.called
    /\ data' = [called |-> TRUE, kpis |-> extract_kpis_from_text(full_text)]
    /\ UNCHANGED <<val, parsed, full_text, table, passes, uploaded_ppts, uploaded_zip,
                   pc, idx, rows, seen, warnings, errors, info, df, exported>>

NextKpi == CallExtractKpis

SpecKpi == InitKpi /\ [][NextKpi]_vars

Matched(k) == search(PATTERNS[k], full_text)

\* C8: the returned map never holds "Quality Score (alt)"; its "Quality Score"
\* is the primary rule's capture when that rule matched, else the fallback's
\* capture when only the fallback matched, else missing; every other key is
\* there exactly when its own rule matched, with that rule's capture.
C8_QualityScorePromotion ==
    data.called =>
        LET d == data.kpis
            prim == Matched("Quality Score")
            alt == Matched("Quality Score (alt)")
        IN  /\ "Quality Score (alt)" \notin DOMAIN d
            /\ prim.some => Get(d, "Quality Score") = prim
            /\ (~prim.some /\ alt.some) => Get(d, "Quality Score") = alt
            /\ (~prim.some /\ ~alt.some) => "Quality Score" \notin DOMAIN d
            /\ \A k \in {"Achievement Rate", "Revenue Target", "Achieved",
                         "Revenue Reached", "Target Of", "Revenue %"} :
                   Get(d, k) = Matched(k)

\* Both phrasings occur with different percentages and the primary one was kept.
C8_Witness ==
    /\ data.called
    /\ Matched("Quality Score").some /\ Matched("Quality Score (alt)").some
    /\ Matched("Quality Score") # Matched("Quality Score (alt)")
    /\ Get(data.kpis, "Quality Score") = Matched("Quality Score")

(***************************************************************************)
(* Rows and the table-wide reconciliation pass.                            *)
(***************************************************************************)
\* The seven KPI columns of the row process_pptx_bytes builds from a deck.
KpiColumns(shapes) ==
    LET kpis == extract_kpis_from_text(JoinShapes(shapes))
    IN  [c \in {"Achievement Rate (%)", "Revenue Target", "Achieved",
                "Revenue Reached", "Target Of", "Revenue % (%)", "Quality Score (%)"} |->
           CASE c = "Achievement Rate (%)" ->
                    parse_percent(Get(kpis, "Achievement Rate")).value
             [] c = "Revenue Target" -> parse_currency(Get(kpis, "Revenue Target")).value
             [] c = "Achieved" -> parse_currency(Get(kpis, "Achieved")).value
             [] c = "Revenue Reached" ->
                    parse_currency(Get(kpis, "Revenue Reached")).value
             [] c = "Target Of" -> parse_currency(Get(kpis, "Target Of")).value
             [] c = "Revenue % (%)" -> parse_percent(Get(kpis, "Revenue %")).value
             [] c = "Quality Score (%)" -> parse_percent(Get(kpis, "Quality Score")).value]

\* pd.notnull: None and NaN are both null.
notnull(x) == x.some

\* "Best Achieved" taken by truthiness (Achieved or Revenue Reached): 0 is falsy.
BestAchievedTruthy(r) ==
    IF notnull(r["Achieved"]) /\ r["Achieved"].m # 0
    THEN r["Achieved"] ELSE r["Revenue Reached"]

BestAchieved(r) ==
    IF notnull(r["Achieved"]) THEN r["Achieved"] ELSE r["Revenue Reached"]

BestTarget(r) ==
    IF notnull(r["Revenue Target"]) THEN r["Revenue Target"] ELSE r["Target Of"]

\* The integer nearest to n / d, a tie going to the even one (Python's round).
RoundHalfEven(n, d) ==
    LET q == n \div d
        r == n % d
    IN  IF 2 * r < d THEN q
        ELSE IF 2 * r > d THEN q + 1
        ELSE IF q % 2 = 0 THEN q ELSE q + 1

\* round((a / b) * 100.0, 2) in exact arithmetic.
RatePercent(a, b) ==
    Some(RoundHalfEven(10000 * a.m * Pow10(b.e), b.m * Pow10(a.e)), 2)

\* infer_rate that tries Revenue % before the computed rate.
infer_rate_revenue_first(row) ==
    IF notnull(row["Achievement Rate (%)"]) THEN row["Achievement Rate (%)"]
    ELSE IF notnull(row["Revenue % (%)"]) THEN row["Revenue % (%)"]
    ELSE IF /\ notnull(row["Best Achieved"])
            /\ notnull(row["Best Target"])
            /\ row["Best Target"].m # 0
    THEN RatePercent(row["Best Achieved"], row["Best Target"])
    ELSE None

\* infer_rate that takes a stated rate for a fraction and scales it to percent.
infer_rate_rescaled(row) ==
    IF notnull(row["Achievement Rate (%)"])
    THEN Some(100 * row["Achievement Rate (%)"].m, row["Achievement Rate (%)"].e)
    ELSE IF /\ notnull(row["Best Achieved"])
            /\ notnull(row["Best Target"])
            /\ row["Best Target"].m # 0
    THEN RatePercent(row["Best Achieved"], row["Best Target"])
    ELSE IF notnull(row["Revenue % (%)"]) THEN row["Revenue % (%)"]
    ELSE None

infer_rate(row) ==
    IF notnull(row["Achievement Rate (%)"]) THEN row["Achievement Rate (%)"]
    ELSE IF /\ notnull(row["Best Achieved"])
            /\ notnull(row["Best Target"])
            /\ row["Best Target"].m # 0
    THEN RatePercent(row["Best Achieved"], row["Best Target"])
    ELSE IF notnull(row["Revenue % (%)"]) THEN row["Revenue % (%)"]
    ELSE None

\* The three column assignments of the handler, in order: each
\* df[col] = df.apply(f, axis=1) adds the column, or overwrites it, row by row.
Reconcile(frame) ==
    LET d1 == [k \in DOMAIN frame |->
                  ("Best Achieved" :> BestAchieved(frame[k])) @@ frame[k]]
        d2 == [k \in DOMAIN d1 |-> ("Best Target" :> BestTarget(d1[k])) @@ d1[k]]
    IN  [k \in DOMAIN d2 |-> ("Achievement Rate (%)" :> infer_rate(d2[k])) @@ d2[k]]

(***************************************************************************)
(* The reconciliation pass on one-row and two-row tables.                  *)
(***************************************************************************)
Amounts == {None} \cup {Some(n, 0) : n \in 0..MaxAmt}
Percents == {None, Some(125, 1)}

SampleRows ==
    [{"PPT File"} -> {[stem |-> "a", ext |-> ".pptx"]}]
    \X [{"Achievement Rate (%)"} -> Percents]
    \X [{"Revenue Target", "Achieved", "Revenue Reached", "Target Of"} -> Amounts]
    \X [{"Revenue % (%)"} -> {None, Some(75, 1)}]
    \X [{"Quality Score (%)"} -> {None, Some(80, 0)}]

RowOf(t) == t[1] @@ t[2] @@ t[3] @@ t[4] @@ t[5]

FixedRow ==
    ("PPT File" :> [stem |-> "b", ext |-> ".pptx"]) @@
    [c \in {"Achievement Rate (%)", "Revenue Target", "Achieved", "Revenue Reached",
            "Target Of", "Revenue % (%)", "Quality Score (%)"} |->
        IF c = "Revenue Reached" THEN Some(1, 0)
        ELSE IF c = "Target Of" THEN Some(3, 0) ELSE None]

InitRow ==
    /\ table \in {<<RowOf(t)>> : t \in SampleRows} \cup
                 {<<FixedRow, RowOf(t)>> : t \in SampleRows}
    /\ passes = 0
    /\ df = <<>>
    /\ val = NoStr /\ parsed = NotCalled
    /\ full_text = <<>> /\ data = NoData
    /\ uploaded_ppts = <<>> /\ uploaded_zip = <<>>
    /\ pc = "idle" /\ idx = 0 /\ rows = <<>> /\ seen = {}
    /\ warnings = <<>> /\ errors = <<>> /\ info = <<>>
    /\ exported = FALSE

\* One run of the pass: on the table first, then on its own result.
ReconcilePass ==
    /\ passes < MaxPasses
    /\ df' = Reconcile(IF passes = 0 THEN table ELSE df)
    /\ passes' = passes + 1
    /\ UNCHANGED <<val, parsed, full_text, data, table, uploaded_ppts, uploaded_zip,
                   pc, idx, rows, seen, warnings, errors, info, exported>>

NextRow == ReconcilePass

SpecRow == InitRow /\ [][NextRow]_vars

RawColumns ==
    {"PPT File", "Revenue Target", "Achieved", "Revenue Reached", "Target Of",
     "Revenue % (%)", "Quality Score (%)"}

\* h hundredths is 100 * a / b rounded to two decimals: within half a hundredth.
IsRounded(h, a, b) ==
    LET n == 10000 * a.m * Pow10(b.e)
        d == b.m * Pow10(a.e)
        diff == IF n >= h * d THEN n - h * d ELSE h * d - n
    IN  2 * diff <= d

C4_Idempotent == [][passes >= 1 => df' = df]_vars

\* A second pass ran on a table whose rate the first pass had computed, and
\* on one whose rate was stated.
C4_Witness ==
    /\ passes = 2
    /\ Len(table) = 2
    /\ ~table[1]["Achievement Rate (%)"].some
    /\ df[1]["Achievement Rate (%)"] = Some(3333, 2)
    /\ table[2]["Achievement Rate (%)"] = Some(125, 1)
    /\ df[2]["Achievement Rate (%)"] = Some(125, 1)

\* C6: after the pass bestAchieved is Achieved whenever that is present (0
\* included) and RevenueReached otherwise; bestTarget is RevenueTarget whenever
\* present (0 included) and TargetOf otherwise; the raw fields other than the
\* achievement rate are as they were.
C6_BestFields ==
    passes >= 1 =>
        /\ DOMAIN df = DOMAIN table
        /\ \A k \in DOMAIN table :
              /\ table[k]["Achieved"].some => df[k]["Best Achieved"] = table[k]["Achieved"]
              /\ ~table[k]["Achieved"].some =>
                     df[k]["Best Achieved"] = table[k]["Revenue Reached"]
              /\ table[k]["Revenue Target"].some =>
                     df[k]["Best Target"] = table[k]["Revenue Target"]
              /\ ~table[k]["Revenue Target"].some =>
                     df[k]["Best Target"] = table[k]["Target Of"]
              /\ \A c \in RawColumns : df[k][c] = table[k][c]
              /\ DOMAIN df[k] =
                     RawColumns \cup {"Achievement Rate (%)", "Best Achieved", "Best Target"}

\* Achieved is 0 and Revenue Reached is 2: bestAchieved is the 0.
C6_Witness ==
    /\ passes >= 1
    /\ \E k \in DOMAIN table :
          /\ table[k]["Achieved"] = Some(0, 0)
          /\ table[k]["Revenue Reached"] = Some(2, 0)
          /\ df[k]["Best Achieved"] = Some(0, 0)
          /\ ~table[k]["Revenue Target"].some
          /\ df[k]["Best Target"] = table[k]["Target Of"]

(***************************************************************************)
(* The "Process Files" handler on a batch of uploads.                      *)
(*                                                                         *)
(* A file name is its stem and its extension; a file's bytes are named,    *)
(* not spelled out.  An upload of the ZIP widget is absent, or bytes that  *)
(* ZipFile() rejects, or an archive: namelist() in listing order and, as   *)
(* zf.read(name) looks an entry up by its name, one content per name.      *)
(***************************************************************************)
Name(stem, ext) == [stem |-> stem, ext |-> ext]

\* str.lower() on an extension.
Lower(ext) == IF ext = ".PPTX" THEN ".pptx" ELSE ext

\* Presentation(bytes): the shapes of the deck the bytes hold, slide by slide;
\* it raises on corrupt bytes.
Presentation(bytes) ==
    IF bytes = "deckA"
    THEN [raised |-> FALSE,
          shapes |->
            <<Shape(<<Word("Achieved"), Word("Rs"), Lit(<<"8", "0", "0">>)>>),
              Picture,
              Shape(<<Word("Revenue Target"), Word(":"), Word("Rs"),
                      Lit(<<"1", ",", "0", "0", "0">>)>>),
              Shape(<<Word("Quality score"), Word(":"),
                      Lit(<<"9", "2", ".", "5", "%">>)>>)>>]
    ELSE IF bytes = "deckB"
    THEN [raised |-> FALSE,
          shapes |->
            <<Shape(<<Word("revenue reached"), Word("Rs"), Lit(<<"5", "0", "0">>),
                      Word("against a target of"), Word("Rs"), Lit(<<"0">>),
                      Lit(<<"(", "1", "2", ".", "5", "%", ")">>)>>),
              Shape(<<Word("Quality score"), Word("was"), Lit(<<"8", "0", "%">>)>>)>>]
    ELSE [raised |-> TRUE, shapes |-> <<>>]

PptNames == {Name("a", ".pptx"), Name("b", ".pptx")}
PptFiles == [name : PptNames, bytes : {"corrupt", "deckA"}]

ZipNames == {Name("a", ".pptx"), Name("b", ".PPTX"), Name("n", ".txt")}
NoZip == [present |-> FALSE, valid |-> FALSE, namelist |-> <<>>, files |-> <<>>]
Range(f) == {f[k] : k \in DOMAIN f}
ZipUploads ==
    {NoZip} \cup
    UNION {[present : {TRUE}, valid : BOOLEAN, namelist : {nl},
            files : [Range(nl) -> {"corrupt", "deckB"}]] :
           nl \in Strings(ZipNames, MaxEntries)}

\* The KPI columns of each deck of the model, computed once.
ParsedDecks == [b \in {"deckA", "deckB"} |-> KpiColumns(Presentation(b).shapes)]

\* process_pptx_bytes once Presentation() has parsed the bytes: the row under
\* the file's name.
process_pptx_bytes(bytes, filename) == ("PPT File" :> filename) @@ ParsedDecks[bytes]

InitBatch ==
    /\ uploaded_ppts \in Strings(PptFiles, MaxPpts)
    /\ uploaded_zip \in ZipUploads
    /\ pc = "ppts" /\ idx = 1
    /\ rows = <<>> /\ seen = {}
    /\ warnings = <<>> /\ errors = <<>> /\ info = <<>>
    /\ df = <<>> /\ passes = 0 /\ exported = FALSE
    /\ val = NoStr /\ parsed = NotCalled
    /\ full_text = <<>> /\ data = NoData
    /\ table = <<>>

\* One try block around process_pptx_bytes where the name is recorded as seen
\* before the deck is parsed, so that a failure leaves it in `seen`.
AttemptSeenFirst(bytes, name, source) ==
    /\ seen' = seen \cup {name}
    /\ IF ~Presentation(bytes).raised
       THEN /\ rows' = Append(rows, process_pptx_bytes(bytes, name))
            /\ UNCHANGED warnings
       ELSE /\ warnings' = Append(warnings, [name |-> name, source |-> source])
            /\ UNCHANGED rows

\* One try block around process_pptx_bytes: the row appended and the name
\* recorded, or, Presentation() having raised, a warning.
Attempt(bytes, name, source) ==
    IF ~Presentation(bytes).raised
    THEN /\ rows' = Append(rows, process_pptx_bytes(bytes, name))
         /\ seen' = seen \cup {name}
         /\ UNCHANGED warnings
    ELSE /\ warnings' = Append(warnings, [name |-> name, source |-> source])
         /\ UNCHANGED <<rows, seen>>

\* The loop over the uploaded decks where a failure ends the loop.
ProcessPptStopOnFailure ==
    /\ pc = "ppts" /\ idx <= Len(uploaded_ppts)
    /\ Attempt(uploaded_ppts[idx].bytes, uploaded_ppts[idx].name, "pptx")
    /\ idx' = IF ~Presentation(uploaded_ppts[idx].bytes).raised THEN idx + 1 ELSE Len(uploaded_ppts) + 1
    /\ UNCHANGED <<val, parsed, full_text, data, table, passes, uploaded_ppts,
                   uploaded_zip, pc, errors, info, df, exported>>

\* One iteration of the loop over the uploaded decks.
ProcessPpt ==
    /\ pc = "ppts" /\ idx <= Len(uploaded_ppts)
    /\ Attempt(uploaded_ppts[idx].bytes, uploaded_ppts[idx].name, "pptx")
    /\ idx' = idx + 1
    /\ UNCHANGED <<val, parsed, full_text, data, table, passes, uploaded_ppts,
                   uploaded_zip, pc, errors, info, df, exported>>

EndPpts ==
    /\ pc = "ppts" /\ idx > Len(uploaded_ppts)
    /\ pc' = "zip"
    /\ UNCHANGED <<val, parsed, full_text, data, table, passes, uploaded_ppts,
                   uploaded_zip, idx, rows, seen, warnings, errors, info, df, exported>>

\* uploaded_zip is None.
SkipZip ==
    /\ pc = "zip" /\ ~uploaded_zip.present
    /\ pc' = "rows"
    /\ UNCHANGED <<val, parsed, full_text, data, table, passes, uploaded_ppts,
                   uploaded_zip, idx, rows, seen, warnings, errors, info, df, exported>>

\* ZipFile() raising where the error ends the run.
BadZipStops ==
    /\ pc = "zip" /\ uploaded_zip.present /\ ~uploaded_zip.valid
    /\ errors' = Append(errors, "Could not read ZIP")
    /\ pc' = "done"
    /\ UNCHANGED <<val, parsed, full_text, data, table, passes, uploaded_ppts,
                   uploaded_zip, idx, rows, seen, warnings, info, df, exported>>

\* ZipFile() raises: the outer except reports it and the handler goes on.
BadZip ==
    /\ pc = "zip" /\ uploaded_zip.present /\ ~uploaded_zip.valid
    /\ errors' = Append(errors, "Could not read ZIP")
    /\ pc' = "rows"
    /\ UNCHANGED <<val, parsed, full_text, data, table, passes, uploaded_ppts,
                   uploaded_zip, idx, rows, seen, warnings, info, df, exported>>

OpenZip ==
    /\ pc = "zip" /\ uploaded_zip.present /\ uploaded_zip.valid
    /\ pc' = "entries" /\ idx' = 1
    /\ UNCHANGED <<val, parsed, full_text, data, table, passes, uploaded_ppts,
                   uploaded_zip, rows, seen, warnings, errors, info, df, exported>>

\* One iteration of the loop over zf.namelist().
ProcessEntry ==
    /\ pc = "entries" /\ idx <= Len(uploaded_zip.namelist)
    /\ LET name == uploaded_zip.namelist[idx]
       IN  IF Lower(name.ext) = ".pptx" /\ name \notin seen
           THEN Attempt(uploaded_zip.files[name], name, "zip")
           ELSE UNCHANGED <<rows, seen, warnings>>
    /\ idx' = idx + 1
    /\ UNCHANGED <<val, parsed, full_text, data, table, passes, uploaded_ppts,
                   uploaded_zip, pc, errors, info, df, exported>>

EndEntries ==
    /\ pc = "entries" /\ idx > Len(uploaded_zip.namelist)
    /\ pc' = "rows"
    /\ UNCHANGED <<val, parsed, full_text, data, table, passes, uploaded_ppts,
                   uploaded_zip, idx, rows, seen, warnings, errors, info, df, exported>>

\* The table built and reconciled whether or not there are rows.
CheckRowsUnguarded ==
    /\ pc = "rows"
    /\ df' = Reconcile(rows) /\ passes' = passes + 1 /\ pc' = "output"
    /\ UNCHANGED <<val, parsed, full_text, data, table, uploaded_ppts, uploaded_zip,
                   idx, rows, seen, warnings, errors, info, exported>>

\* if not rows: st.info(...); else: the DataFrame built and reconciled.
CheckRows ==
    /\ pc = "rows"
    /\ IF rows = <<>>
       THEN /\ info' = Append(info, "No valid PPTX files found.")
            /\ pc' = "done"
            /\ UNCHANGED <<df, passes>>
       ELSE /\ df' = Reconcile(rows)
            /\ passes' = passes + 1
            /\ pc' = "output"
            /\ UNCHANGED info
    /\ UNCHANGED <<val, parsed, full_text, data, table, uploaded_ppts, uploaded_zip,
                   idx, rows, seen, warnings, errors, exported>>

\* The table shown and offered for download, the charts drawn.
Output ==
    /\ pc = "output"
    /\ exported' = TRUE
    /\ pc' = "done"
    /\ UNCHANGED <<val, parsed, full_text, data, table, passes, uploaded_ppts,
                   uploaded_zip, idx, rows, seen, warnings, errors, info, df>>

Next ==
    \/ ProcessPpt
    \/ EndPpts
    \/ SkipZip
    \/ BadZip
    \/ OpenZip
    \/ ProcessEntry
    \/ EndEntries
    \/ CheckRows
    \/ Output

Spec == InitBatch /\ [][Next]_vars

(***************************************************************************)
(* What a batch should yield, stated on the uploads alone.                 *)
(***************************************************************************)
Parses(bytes) == ~Presentation(bytes).raised

FileName(row) == row["PPT File"]
RowNames(rs) == {FileName(rs[k]) : k \in DOMAIN rs}

LoopsOver == pc \in {"rows", "output", "done"}

\* The uploaded decks that parse, in upload order, as rows; those that do not,
\* as warnings.
RECURSIVE PptRows(_)
PptRows(fs) ==
    IF fs = <<>> THEN <<>>
    ELSE (IF Parses(Head(fs).bytes)
          THEN <<process_pptx_bytes(Head(fs).bytes, Head(fs).name)>> ELSE <<>>)
         \o PptRows(Tail(fs))

RECURSIVE PptWarnings(_)
PptWarnings(fs) ==
    IF fs = <<>> THEN <<>>
    ELSE (IF Parses(Head(fs).bytes) THEN <<>>
          ELSE <<[name |-> Head(fs).name, source |-> "pptx"]>>)
         \o PptWarnings(Tail(fs))

\* The archive entries in listing order: an entry is attempted when its name
\* ends in .pptx and no row of that name exists yet (have: the names so far).
RECURSIVE ZipRows(_, _)
ZipRows(names, have) ==
    IF names = <<>> THEN <<>>
    ELSE LET n == Head(names)
             tried == Lower(n.ext) = ".pptx" /\ n \notin have
             ok == tried /\ Parses(uploaded_zip.files[n])
         IN  (IF ok THEN <<process_pptx_bytes(uploaded_zip.files[n], n)>> ELSE <<>>)
             \o ZipRows(Tail(names), IF ok THEN have \cup {n} ELSE have)

RECURSIVE ZipWarnings(_, _)
ZipWarnings(names, have) ==
    IF names = <<>> THEN <<>>
    ELSE LET n == Head(names)
             tried == Lower(n.ext) = ".pptx" /\ n \notin have
             ok == tried /\ Parses(uploaded_zip.files[n])
         IN  (IF tried /\ ~ok THEN <<[name |-> n, source |-> "zip"]>> ELSE <<>>)
             \o ZipWarnings(Tail(names), IF ok THEN have \cup {n} ELSE have)

ZipReadable == uploaded_zip.present /\ uploaded_zip.valid

ExpectedRows ==
    PptRows(uploaded_ppts) \o
    (IF ZipReadable THEN ZipRows(uploaded_zip.namelist, RowNames(PptRows(uploaded_ppts)))
     ELSE <<>>)

ExpectedWarnings ==
    PptWarnings(uploaded_ppts) \o
    (IF ZipReadable
     THEN ZipWarnings(uploaded_zip.namelist, RowNames(PptRows(uploaded_ppts)))
     ELSE <<>>)

\* C1: the table never holds two rows with the same source name.
C1_UniqueNames ==
    \A j, k \in DOMAIN rows : FileName(rows[j]) = FileName(rows[k]) => j = k

\* C2: once every document has been attempted, each failing document has
\* exactly one warning and no row, and the rows are exactly the documents that
\* parsed and were not skipped, uploads first in upload order, archive entries
\* after them in listing order; the table output has those rows in that order.
C2_BatchResilience ==
    /\ LoopsOver => (rows = ExpectedRows /\ warnings = ExpectedWarnings)
    /\ Len(rows) + Len(warnings) <= Len(uploaded_ppts) + Len(uploaded_zip.namelist)
    /\ (pc = "done" /\ ExpectedRows # <<>>) =>
           /\ exported
           /\ DOMAIN df = DOMAIN ExpectedRows
           /\ \A k \in DOMAIN df : FileName(df[k]) = FileName(ExpectedRows[k])

\* The first upload was corrupt: it has its warning, the second upload and an
\* archive entry gave the two rows of the table.
C2_Witness ==
    /\ pc = "done" /\ exported
    /\ Len(uploaded_ppts) = 2
    /\ ~Parses(uploaded_ppts[1].bytes)
    /\ warnings = <<[name |-> uploaded_ppts[1].name, source |-> "pptx"]>>
    /\ Len(df) = 2
    /\ FileName(df[1]) = uploaded_ppts[2].name
    /\ FileName(df[2]) = Name("b", ".PPTX")

\* C5: when ZipFile() rejects the archive the error is reported exactly once,
\* no entry of the archive gives a row or a warning, and the rows of the
\* uploaded decks stand as they were and are still reconciled and output.
C5_UnreadableArchive ==
    /\ Len(errors) <= 1
    /\ (LoopsOver /\ uploaded_zip.present /\ ~uploaded_zip.valid) =>
           /\ Len(errors) = 1
           /\ rows = PptRows(uploaded_ppts)
           /\ warnings = PptWarnings(uploaded_ppts)
           /\ (pc = "done" /\ PptRows(uploaded_ppts) # <<>>) =>
                  (exported /\ passes = 1 /\ df = Reconcile(PptRows(uploaded_ppts)))
    /\ (LoopsOver /\ ~(uploaded_zip.present /\ ~uploaded_zip.valid)) => errors = <<>>

\* An unreadable archive that lists a deck, beside an upload that parsed: one
\* error, and the upload's row reconciled and output.
C5_Witness ==
    /\ pc = "done" /\ exported
    /\ uploaded_zip.present /\ ~uploaded_zip.valid
    /\ \E k \in DOMAIN uploaded_zip.namelist :
          /\ Lower(uploaded_zip.namelist[k].ext) = ".pptx"
          /\ Parses(uploaded_zip.files[uploaded_zip.namelist[k]])
          /\ uploaded_zip.namelist[k] \notin RowNames(rows)
    /\ Len(errors) = 1
    /\ Len(df) = 1

\* C9: a run is never stuck before its end; when no document was processed
\* successfully it ends with the informational message and no table built,
\* reconciled or output;
\* otherwise the pass runs exactly once, on the rows of the whole batch.
C9_EmptyBatch ==
    /\ pc # "done" => ENABLED Next
    /\ passes <= 1
    /\ (pc = "done" /\ ExpectedRows = <<>>) =>
           /\ info = <<"No valid PPTX files found.">>
           /\ df = <<>> /\ passes = 0 /\ ~exported
    /\ (pc = "done" /\ ExpectedRows # <<>>) =>
           (passes = 1 /\ info = <<>> /\ exported)
    /\ passes = 1 => (LoopsOver /\ pc # "rows" /\ df = Reconcile(ExpectedRows))
    /\ passes = 0 => (df = <<>> /\ ~exported)

\* Every document of a batch failed and the archive was unreadable: the run
\* ended with the message and no table.
C9_Witness ==
    /\ pc = "done"
    /\ Len(uploaded_ppts) = 2 /\ Len(warnings) = 2
    /\ Len(errors) = 1
    /\ info = <<"No valid PPTX files found.">>
    /\ df = <<>> /\ ~exported

\* C10: `seen` is at every point the set of source names of the rows appended
\* so far; an upload that failed does not keep a later archive entry of the
\* same name from being attempted and, if it parses, from giving the row of
\* that name.
C10_SeenSet ==
    /\ seen = RowNames(rows)
    /\ (LoopsOver /\ ZipReadable) =>
           \A n \in Range(uploaded_zip.namelist) :
               ( /\ Lower(n.ext) = ".pptx"
                 /\ Parses(uploaded_zip.files[n])
                 /\ \A k \in DOMAIN uploaded_ppts :
                        uploaded_ppts[k].name = n => ~Parses(uploaded_ppts[k].bytes) )
               => \E k \in DOMAIN rows :
                      rows[k] = process_pptx_bytes(uploaded_zip.files[n], n)

\* The upload a.pptx failed and the archive's a.pptx gave the row.
C10_Witness ==
    /\ LoopsOver /\ ZipReadable
    /\ \E k \in DOMAIN uploaded_ppts :
          /\ uploaded_ppts[k].name = Name("a", ".pptx")
          /\ ~Parses(uploaded_ppts[k].bytes)
    /\ \A k \in DOMAIN uploaded_ppts :
          uploaded_ppts[k].name = Name("a", ".pptx") => ~Parses(uploaded_ppts[k].bytes)
    /\ \E k \in DOMAIN rows : rows[k] = process_pptx_bytes("deckB", Name("a", ".pptx"))
    /\ seen = RowNames(rows)

====
